---- MODULE Spec2Model ----
(***************************************************************************)
(* django-parting: partition synthesis and PartitionForeignKey cascade.    *)
(*                                                                         *)
(* Classes are identified by tuples of strings: a template (an abstract    *)
(* or plain model class written by the application) is <<object_name>>, a  *)
(* generated partition is <<object_name, partition_key>>, and None is the  *)
(* empty tuple.  The Django application cache (get_model/register_models)  *)
(* is the dictionary app_models, keyed by the lower-cased model name; the  *)
(* models module namespace (sys.modules[...]) is the dictionary module,    *)
(* keyed by the exact name.  Each thread runs get_partition as a stack of  *)
(* frames, one per nested call, each stepping through the statements of    *)
(* get_partition/_ensure_partition.                                        *)
(*                                                                         *)
(* Environment: the model classes exist with their plain fields; the       *)
(* declarations of managers and partition foreign keys                     *)
(* (contribute_to_class) and foreign bindings in the module happen before  *)
(* the first get_partition call, as they do at import time, and a          *)
(* declaration that raises aborts the import.  Partition keys are          *)
(* non-empty strings.  A new call runs on the first idle thread.           *)
(*                                                                         *)
(* Spec is that program over Tweet, Star and a model that is not abstract. *)
(* SpecCascade starts from three declared models (two dependents of one    *)
(* target, a chain, several placeholders of one owner).  SpecLate lets a   *)
(* thread declare a PartitionForeignKey while get_partition calls run.     *)
(* SpecCommand is one run of the ensure_partition management command on    *)
(* testapp, over all its arguments and options.                            *)
(* SpecCycle starts from models whose placeholders form a cycle or point   *)
(* at their own model.  SpecLock is the cycle with threads that are kept   *)
(* running (weak fairness of each thread's steps).                         *)
(***************************************************************************)
EXTENDS Naturals, Sequences, FiniteSets, TLC

\* ---------------------------------------------------------------- bounds
MaxCalls == 2

\* ---------------------------------------------------------------- universe
Threads == {1, 2}
NoThread == 0
Keys == {"foo", "Foo", "baz"}

None == <<>>
Foreign == <<"object()">>

\* exceptions, as <<type, message, the name the message gives>>
NoExc == <<>>
AlreadyExists(model_name) ==
    <<"AttributeError", "already exists in module", model_name[1], model_name[2]>>
NoPartitionManager(cls) ==
    <<"AttributeError", "does not have a partition manager", cls[1]>>
ModelMustBeAbstract(model) ==
    <<"AssertionError", "partitioned model must be abstract", model[1]>>
OwnerMustBeAbstract(cls) ==
    <<"AssertionError", "uses a PartitionForeignKey and must be abstract", cls[1]>>
MultipleTargets(cls) ==
    <<"AssertionError", "PartitionForeignKeys do not point to the same target", cls[1]>>

\* the classes written by hand: testapp.models.Tweet, testapp.models.Star, and a
\* model that is not abstract (tests.py, BadModel)
Tweet == <<"Tweet">>
Star == <<"Star">>
BadModel == <<"BadModel">>

\* a third abstract model that declares a PartitionForeignKey `parent`
\* (tests.py, ChildPartitionModel)
ChildPartitionModel == <<"ChildPartitionModel">>

\* str.lower() on the strings of this universe
lower(s) ==
    CASE s = "Foo" -> "foo"
      [] s = "Tweet" -> "tweet"
      [] s = "Star" -> "star"
      [] s = "BadModel" -> "badmodel"
      [] s = "ChildPartitionModel" -> "childpartitionmodel"
      [] OTHER -> s

\* dict.get(key, default)
Get(dict, key, default) == IF key \in DOMAIN dict THEN dict[key] ELSE default

\* dict[key] = value
Put(dict, key, value) == [k \in DOMAIN dict \cup {key} |-> IF k = key THEN value ELSE dict[k]]

Range(seq) == {seq[i] : i \in 1..Len(seq)}

\* ---------------------------------------------------------------- state
VARIABLES
    meta,                \* class -> _meta and class attributes of every class
    partition_manager,   \* classes carrying the _partition_manager attribute
    partitioned_targets, \* PartitionRegistry.partitioned_targets: target -> list of pfks
    app_models,          \* Django application cache: lower-cased name -> class
    module,              \* sys.modules[model.__module__]: name -> object
    import_lock,         \* imp lock: [owner, count]
    stack,               \* thread -> sequence of get_partition frames, innermost last
    declare_exc,         \* exception raised by a declaration (NoExc when none)
    calls,               \* number of top-level get_partition calls started
    created,             \* lower-cased name -> number of classes registered under it
    returned,            \* <<template, key>> -> first partition get_partition returned for it
    command              \* the ensure_partition management command: its arguments and position

vars == <<meta, partition_manager, partitioned_targets, app_models, module,
          import_lock, stack, declare_exc, calls, created, returned, command>>

shared == <<meta, partition_manager, partitioned_targets, app_models, module>>

\* ---------------------------------------------------------------- names
\* PartitionManager._model_name_for_partition: '{}_{}'.format(object_name, key)
_model_name_for_partition(self, partition_key) == <<self[1], partition_key>>

\* the key under which Django's cache stores and finds a model name
CacheName(model_name) == <<lower(model_name[1]), lower(model_name[2])>>

\* mutant: a lookup by the exact name, without lower-casing it
get_model_exact(cache, model_name) == Get(cache, model_name, None)

\* django.db.models.get_model(app_label, model_name)
get_model(cache, model_name) == Get(cache, CacheName(model_name), None)

\* get_partition_key(cls, default): the class attribute _partition_key, held as
\* <<key>> so that it compares with None, or the default when the class has none
get_partition_key(m, cls, default) ==
    IF m[cls].partition_key # None THEN m[cls].partition_key ELSE default

\* ---------------------------------------------------------------- registry
PFK(cls, name, to) == [cls |-> cls, name |-> name, to |-> to]

\* mutant: the placeholder is put at the front of the list of its target
register_foreign_key_front(targets, fk) ==
    Put(targets, fk.to, <<fk>> \o Get(targets, fk.to, <<>>))

\* PartitionRegistry.register_foreign_key
register_foreign_key(targets, fk) ==
    Put(targets, fk.to, Append(Get(targets, fk.to, <<>>), fk))

\* mutant: the list is given in the reverse of the order of registration
foreign_keys_referencing_reversed(targets, model) ==
    LET l == Get(targets, model, <<>>)
    IN  [k \in 1..Len(l) |-> l[Len(l) + 1 - k]]

\* PartitionRegistry.foreign_keys_referencing
foreign_keys_referencing(targets, model) == Get(targets, model, <<>>)

\* every placeholder the registry holds
RegisteredPFKs ==
    UNION {Range(partitioned_targets[to]) : to \in DOMAIN partitioned_targets}

\* ---------------------------------------------------------------- fields
PlaceholderField(name, to) == [name |-> name, type |-> "PartitionForeignKey", to |-> to]
ForeignKeyField(name, to) == [name |-> name, type |-> "ForeignKey", to |-> to]

IsPFK(field) == field.type = "PartitionForeignKey"

\* Options.get_field(name): the first entry of _meta.fields with that name
get_field(m, cls, name) ==
    LET hits == SelectSeq(m[cls].fields, LAMBDA f : f.name = name)
    IN  IF hits = <<>> THEN None ELSE hits[1]

\* Options.add_field: the field joins local_fields and the field cache
add_field(m, cls, field) ==
    [m EXCEPT ![cls].local_fields = Append(@, field),
              ![cls].fields = Append(@, field)]

NewMeta(abstract, key) ==
    [abstract |-> abstract, partition_key |-> key, local_fields |-> <<>>, fields |-> <<>>]

\* ---------------------------------------------------------------- command
\* ensure_partition: exceptions the command lets through
CommandError(message) == <<"CommandError", message>>
ImportError == <<"ImportError", "No module named">>
NotImplementedError == <<"NotImplementedError">>

\* a dotted name is the sequence of its components; the modules that can be
\* imported hold the hand-written classes of that name
TestappModels == <<"testapp", "models">>
Importable == {TestappModels}

\* the model references given as args[0]: a name without a dot (test_bad_model),
\* a name missing from the module, a module that does not exist, and the two
\* models of testapp
ModelRefs ==
    {<<"doesnotexist">>, TestappModels \o <<"Nope">>, <<"nomodule", "Tweet">>,
     TestappModels \o <<"Tweet">>, TestappModels \o <<"Star">>}

\* the explicit partition keys given after the model
MaxKeys == 2
KeyLists == UNION {[1..n -> Keys] : n \in 0..MaxKeys}

\* Command.get_model: [exc, model]
Command_get_model(args, m) ==
    IF Len(args) = 0
    THEN [exc |-> CommandError("Please supply at least one partitioned model"),
          model |-> None]
    ELSE LET model == args[1]
         IN  IF Len(model) < 2
             THEN [exc |-> CommandError("Bad model name"), model |-> None]
             ELSE LET module_name == SubSeq(model, 1, Len(model) - 1)
                      model_name == model[Len(model)]
                  IN  IF module_name \notin Importable
                      THEN [exc |-> ImportError, model |-> None]
                      ELSE IF <<model_name>> \notin DOMAIN m
                      THEN [exc |-> CommandError("Unknown model"), model |-> None]
                      ELSE [exc |-> NoExc, model |-> <<model_name>>]

\* current_partition_key / next_partition_key are implemented by
\* TweetPartitionManager only; PartitionManager raises NotImplementedError
ImplementsKeys(model) == model = Tweet

\* Command.get_partition_names: "if current_only and next_only"
FlagsConflict(current_only, next_only) == current_only /\ next_only

\* Command.get_partition_names: [exc, partition_names]
Command_get_partition_names(cmd, model) ==
    IF FlagsConflict(cmd.current_only, cmd.next_only)
    THEN [exc |-> CommandError("You cannot specify current_only and next_only together"),
          partition_names |-> <<>>]
    ELSE LET partition_names == IF Len(cmd.args) >= 2 THEN <<cmd.args[2]>> ELSE <<>>
             raised == [exc |-> NotImplementedError, partition_names |-> <<>>]
         IN  IF cmd.current_only
             THEN IF ImplementsKeys(model)
                  THEN [exc |-> NoExc, partition_names |-> <<cmd.current>>]
                  ELSE raised
             ELSE IF cmd.next_only
             THEN IF ImplementsKeys(model)
                  THEN [exc |-> NoExc, partition_names |-> <<cmd.next>>]
                  ELSE raised
             ELSE IF partition_names = <<>>
             THEN IF ImplementsKeys(model)
                  THEN [exc |-> NoExc, partition_names |-> <<cmd.current, cmd.next>>]
                  ELSE raised
             ELSE [exc |-> NoExc, partition_names |-> partition_names]

\* Command.handle(*args, **options) about to run with these arguments; current
\* and next are the keys current_partition_key() and next_partition_key() give
NewCommand(args, current_only, next_only, current, next) ==
    [pc |-> "handle", args |-> args, current_only |-> current_only,
     next_only |-> next_only, current |-> current, next |-> next,
     model |-> None, partition_names |-> <<>>, i |-> 1, exc |-> NoExc,
     called |-> <<>>]

\* no command is run
NoCommand == [NewCommand(<<>>, FALSE, FALSE, "foo", "foo") EXCEPT !.pc = "idle"]

\* ---------------------------------------------------------------- Init
Init ==
    /\ meta = (Tweet :> NewMeta(TRUE, None))
              @@ (Star :> NewMeta(TRUE, None))
              @@ (BadModel :> NewMeta(FALSE, None))
    /\ partition_manager = {}
    /\ partitioned_targets = <<>>
    /\ app_models = <<>>
    /\ module = <<>>
    /\ import_lock = [owner |-> NoThread, count |-> 0]
    /\ stack = [t \in Threads |-> <<>>]
    /\ declare_exc = NoExc
    /\ calls = 0
    /\ created = <<>>
    /\ returned = <<>>
    /\ command = NoCommand

\* the classes written by hand, as opposed to generated partitions
Templates == {c \in DOMAIN meta : Len(c) = 1}

\* No get_partition call has started and no declaration has failed.
Declaring == calls = 0 /\ declare_exc = NoExc

\* ---------------------------------------------------------------- declarations
\* mutant: the abstractness check left out
ManagerOwnerAny(m, model) == TRUE

\* PartitionManager.contribute_to_class: the abstractness check
ManagerOwnerOk(m, model) == m[model].abstract

\* PartitionManager.contribute_to_class(model, name)
PartitionManager_contribute_to_class(model) ==
    /\ Declaring
    /\ model \in Templates
    /\ model \notin partition_manager
    /\ IF ~ManagerOwnerOk(meta, model)
       THEN /\ declare_exc' = ModelMustBeAbstract(model)
            /\ UNCHANGED partition_manager
       ELSE /\ partition_manager' = partition_manager \cup {model}
            /\ UNCHANGED declare_exc
    /\ UNCHANGED <<meta, partitioned_targets, app_models, module, import_lock,
                   stack, calls, created, returned,
                   command>>

\* PartitionForeignKey.contribute_to_class: the owner must be abstract or a partition
PFKOwnerOk(m, cls) == ~(~m[cls].abstract /\ get_partition_key(m, cls, None) = None)

\* mutant: the comparison of targets left out
PFKTargetsAny(m, cls, to) == TRUE

\* PartitionForeignKey.contribute_to_class: every other pfk of the owner has the same target
PFKTargetsOk(m, cls, to) ==
    \A i \in 1..Len(m[cls].fields) :
        ~(IsPFK(m[cls].fields[i]) /\ m[cls].fields[i].to # to)

\* the PartitionForeignKey declarations the application may make: Star.tweet
\* (testapp), a second key to the same target (test_multiple_fks_good), a key to
\* another target (test_multiple_fks_bad), a key on a model that is not abstract
\* (test_must_be_abstract)
Declarable ==
    {PFK(Star, "tweet", Tweet), PFK(Star, "author", Tweet),
     PFK(Star, "author", Star), PFK(BadModel, "tweet", Tweet)}

\* the names a foreign object may be bound under (test_no_overwrite)
ForeignNames == {<<"Tweet", "foo">>, <<"Star", "foo">>}

\* PartitionForeignKey.contribute_to_class(cls, name), self.to = to: the checks,
\* then the registration and the new field
DeclarePFK(cls, name, to) ==
    /\ get_field(meta, cls, name) = None
    /\ IF ~PFKOwnerOk(meta, cls)
       THEN /\ declare_exc' = OwnerMustBeAbstract(cls)
            /\ UNCHANGED <<meta, partitioned_targets>>
       ELSE IF ~PFKTargetsOk(meta, cls, to)
       THEN /\ declare_exc' = MultipleTargets(cls)
            /\ UNCHANGED <<meta, partitioned_targets>>
       ELSE /\ partitioned_targets' =
                  register_foreign_key(partitioned_targets, PFK(cls, name, to))
            /\ meta' = add_field(meta, cls, PlaceholderField(name, to))
            /\ UNCHANGED declare_exc
    /\ UNCHANGED <<partition_manager, app_models, module, import_lock,
                   stack, calls, created, returned,
                   command>>

\* a class declared at import time, before any get_partition call
PartitionForeignKey_contribute_to_class(cls, name, to) ==
    /\ Declaring
    /\ PFK(cls, name, to) \in Declarable
    /\ DeclarePFK(cls, name, to)

\* the PartitionForeignKeys a thread may declare while get_partition calls run
LateDeclarable ==
    {PFK(Star, "author", Tweet), PFK(ChildPartitionModel, "parent", Tweet),
     PFK(ChildPartitionModel, "parent", Star)}

\* a class declared by one thread while other threads are in get_partition
PartitionForeignKey_contribute_to_class_late(cls, name, to) ==
    /\ calls > 0
    /\ declare_exc = NoExc
    /\ PFK(cls, name, to) \in LateDeclarable
    /\ DeclarePFK(cls, name, to)

\* testapp.models.Tweet_foo = object(): a foreign object bound under a partition's name
module_setattr_foreign(model_name) ==
    /\ Declaring
    /\ model_name \in ForeignNames
    /\ model_name \notin DOMAIN module
    /\ module' = Put(module, model_name, Foreign)
    /\ UNCHANGED <<meta, partition_manager, partitioned_targets, app_models,
                   import_lock, stack, declare_exc, calls, created, returned,
                   command>>

\* ---------------------------------------------------------------- frames
Frame(self, partition_key, create) ==
    [self |-> self, partition_key |-> partition_key, create |-> create,
     pc |-> "get_model", model |-> None, i |-> 1, child |-> None,
     pfks_to_remove |-> {}, exc |-> NoExc]

Depth(t) == Len(stack[t])
Top(t) == stack[t][Depth(t)]
At(t, pc) == Depth(t) > 0 /\ Top(t).pc = pc
SetTop(t, frame) == [stack EXCEPT ![t][Depth(t)] = frame]

\* a top-level call: Model.partitions.get_partition(partition_key, create)
get_partition(t, self, partition_key, create) ==
    /\ declare_exc = NoExc
    /\ calls < MaxCalls
    /\ stack[t] = <<>>
    /\ \A u \in Threads : u < t => stack[u] # <<>>
    /\ self \in partition_manager
    /\ stack' = [stack EXCEPT ![t] = <<Frame(self, partition_key, create)>>]
    /\ calls' = calls + 1
    /\ UNCHANGED <<meta, partition_manager, partitioned_targets, app_models, module,
                   import_lock, declare_exc, created, returned,
                   command>>

\* mutant: the create flag ignored
MustCreateAlways(model, create) == model = None

\* get_partition: "if model is None and create"
MustCreate(model, create) == model = None /\ create

\* get_partition, lines 75-81: look the partition up, then create or return
get_partition_get_model(t) ==
    /\ At(t, "get_model")
    /\ LET f == Top(t)
           model == get_model(app_models,
                              _model_name_for_partition(f.self, f.partition_key))
       IN  stack' = SetTop(t,
               IF MustCreate(model, f.create)
               THEN [f EXCEPT !.pc = "acquire_lock"]
               ELSE [f EXCEPT !.pc = "return", !.model = model])
    /\ UNCHANGED <<meta, partition_manager, partitioned_targets, app_models, module,
                   import_lock, declare_exc, calls, created, returned,
                   command>>

\* mutant: the lock is taken whoever holds it
CanAcquireAny(lock, t) == TRUE

\* imp.acquire_lock(): free, or already held by this thread (re-entrant)
CanAcquire(lock, t) == lock.count = 0 \/ lock.owner = t

\* _ensure_partition, line 87
_ensure_partition_acquire_lock(t) ==
    /\ At(t, "acquire_lock")
    /\ CanAcquire(import_lock, t)
    /\ import_lock' = [owner |-> t, count |-> import_lock.count + 1]
    /\ stack' = SetTop(t, [Top(t) EXCEPT !.pc = "create_model"])
    /\ UNCHANGED <<meta, partition_manager, partitioned_targets, app_models, module,
                   declare_exc, calls, created, returned,
                   command>>

\* ---------------------------------------------------------------- create_model
\* mutant: the partition key is not recorded on the new class
NewPartitionMetaNoKey(m, base, partition_key) ==
    [abstract |-> FALSE, partition_key |-> m[base].partition_key,
     local_fields |-> m[base].local_fields, fields |-> m[base].fields]

\* the class a fresh `type(name, bases, attrs)` builds: a concrete child of the
\* template carrying the partition key and copies of the template's local fields
\* (Django's ModelBase deep-copies every field of an abstract base onto the child;
\* the copy of a PartitionForeignKey takes its own deep-copied registry with it,
\* so the process-wide registry is not touched)
NewPartitionMeta(m, base, partition_key) ==
    [abstract |-> FALSE, partition_key |-> <<partition_key>>,
     local_fields |-> m[base].local_fields, fields |-> m[base].fields]

\* mutant: a new class is built and registered whatever the cache holds
create_model_anew(cache, name) == name

\* create_model(name, bases=(self.model,), attrs={PARTITION_KEY: key}): the class
\* returned.  Django's ModelBase returns the class already registered under the
\* name when there is one, and otherwise builds and registers a new class.
create_model(cache, name) ==
    IF get_model(cache, name) # None THEN get_model(cache, name) ELSE name

\* _ensure_partition, lines 89-96
_ensure_partition_create_model(t) ==
    /\ At(t, "create_model")
    /\ LET f == Top(t)
           name == _model_name_for_partition(f.self, f.partition_key)
           model == create_model(app_models, name)
       IN  /\ IF model = get_model(app_models, name)
              THEN UNCHANGED <<meta, app_models, created>>
              ELSE /\ meta' = Put(meta, model,
                                  NewPartitionMeta(meta, f.self, f.partition_key))
                   /\ app_models' = Put(app_models, CacheName(name), model)
                   /\ created' = Put(created, CacheName(name),
                                     Get(created, CacheName(name), 0) + 1)
           /\ stack' = SetTop(t, [f EXCEPT !.pc = "setattr", !.model = model])
    /\ UNCHANGED <<partition_manager, partitioned_targets, module, import_lock,
                   declare_exc, calls, returned,
                   command>>

\* "if getattr(module, model_name, _marker) is _marker"
NameIsFree(mod, model_name) == model_name \notin DOMAIN mod

\* _ensure_partition, lines 101-106: bind the name in the module or raise
_ensure_partition_setattr(t) ==
    /\ At(t, "setattr")
    /\ LET f == Top(t)
           name == _model_name_for_partition(f.self, f.partition_key)
       IN  IF NameIsFree(module, name)
           THEN /\ module' = Put(module, name, f.model)
                /\ stack' = SetTop(t, [f EXCEPT !.pc = "for_pfk"])
           ELSE /\ stack' = SetTop(t, [f EXCEPT !.pc = "release_lock",
                                                !.exc = AlreadyExists(name)])
                /\ UNCHANGED module
    /\ UNCHANGED <<meta, partition_manager, partitioned_targets, app_models,
                   import_lock, declare_exc, calls, created, returned,
                   command>>

\* mutant: every owner is taken to have a partition manager
HasManagerAny(managers, cls) == TRUE

\* "if not hasattr(pfk.cls, '_partition_manager')"
HasManager(managers, cls) == cls \in managers

\* _ensure_partition, lines 115-120: the next pfk of the live registry list;
\* the child's get_partition runs as a new frame
_ensure_partition_for_pfk(t) ==
    /\ At(t, "for_pfk")
    /\ LET f == Top(t)
           pfks == foreign_keys_referencing(partitioned_targets, f.self)
       IN  IF f.i > Len(pfks)
           THEN stack' = SetTop(t, [f EXCEPT !.pc = "remove"])
           ELSE IF ~HasManager(partition_manager, pfks[f.i].cls)
           THEN stack' = SetTop(t, [f EXCEPT !.pc = "release_lock",
                                           !.exc = NoPartitionManager(pfks[f.i].cls)])
           ELSE stack' = [stack EXCEPT ![t] =
                   Append(SetTop(t, [f EXCEPT !.pc = "point"])[t],
                          Frame(pfks[f.i].cls, f.partition_key, TRUE))]
    /\ UNCHANGED <<meta, partition_manager, partitioned_targets, app_models, module,
                   import_lock, declare_exc, calls, created, returned,
                   command>>

\* mutant: the foreign key is pointed at the template of to_model
point_at_template(m, from_model, rel_name, to_model) ==
    LET keep(f) == ~(f.name = rel_name /\ ~IsPFK(f))
        fk == ForeignKeyField(rel_name, <<to_model[1]>>)
    IN  [m EXCEPT ![from_model].local_fields = Append(SelectSeq(@, keep), fk),
                  ![from_model].fields = Append(SelectSeq(@, keep), fk)]

\* dfk.point(from_model, rel_name, to_model): a real ForeignKey to to_model is
\* added to from_model under rel_name (replacing one added before)
point(m, from_model, rel_name, to_model) ==
    LET keep(f) == ~(f.name = rel_name /\ ~IsPFK(f))
        fk == ForeignKeyField(rel_name, to_model)
    IN  [m EXCEPT ![from_model].local_fields = Append(SelectSeq(@, keep), fk),
                  ![from_model].fields = Append(SelectSeq(@, keep), fk)]

\* PartitionManager._fill_fields_cache(model_meta): the field cache is rebuilt
\* from local_fields, skipping partition foreign keys
_fill_fields_cache(m, cls) ==
    [m EXCEPT ![cls].fields = SelectSeq(m[cls].local_fields, LAMBDA f : ~IsPFK(f))]

\* _ensure_partition, lines 124-126, once the child's get_partition has returned
_ensure_partition_point(t) ==
    /\ At(t, "point")
    /\ LET f == Top(t)
           pfk == foreign_keys_referencing(partitioned_targets, f.self)[f.i]
       IN  /\ meta' = _fill_fields_cache(
                          point(meta, f.child, pfk.name, f.model), f.child)
           /\ stack' = SetTop(t, [f EXCEPT !.pc = "for_pfk", !.i = f.i + 1,
                                           !.pfks_to_remove = @ \cup {pfk}])
    /\ UNCHANGED <<partition_manager, partitioned_targets, app_models, module,
                   import_lock, declare_exc, calls, created, returned,
                   command>>

\* lst.remove(field) for the first PartitionForeignKey named `name` in lst
RemoveFirstPFK(lst, name) ==
    LET hit(i) == lst[i].name = name /\ IsPFK(lst[i])
        idx == {i \in 1..Len(lst) : hit(i)}
    IN  IF idx = {} THEN lst
        ELSE LET first == CHOOSE i \in idx : \A j \in idx : i <= j
             IN  [i \in 1..(Len(lst) - 1) |-> IF i < first THEN lst[i] ELSE lst[i + 1]]

RECURSIVE RemovePFKs(_, _)
RemovePFKs(lst, names) ==
    IF names = {} THEN lst
    ELSE LET n == CHOOSE n \in names : TRUE
         IN  RemovePFKs(RemoveFirstPFK(lst, n), names \ {n})

\* the class whose field lists the clean-up loop edits: the variable `child`,
\* which holds the child of the last pfk the loop processed
RemovalTargets(f) == IF f.pfks_to_remove = {} THEN {} ELSE {f.child}

\* _ensure_partition, lines 129-136
_ensure_partition_remove(t) ==
    /\ At(t, "remove")
    /\ LET f == Top(t)
           names == {pfk.name : pfk \in f.pfks_to_remove}
       IN  /\ meta' = [c \in DOMAIN meta |->
                          IF c \in RemovalTargets(f)
                          THEN [meta[c] EXCEPT
                                  !.fields = RemovePFKs(@, names),
                                  !.local_fields = RemovePFKs(@, names)]
                          ELSE meta[c]]
           /\ stack' = SetTop(t, [f EXCEPT !.pc = "release_lock"])
    /\ UNCHANGED <<partition_manager, partitioned_targets, app_models, module,
                   import_lock, declare_exc, calls, created, returned,
                   command>>

\* mutant: the finally clause leaves the lock as it is
Kept(lock) == lock

\* imp.release_lock()
Released(lock) ==
    [owner |-> IF lock.count = 1 THEN NoThread ELSE lock.owner,
     count |-> lock.count - 1]

\* _ensure_partition, lines 137-138: the finally clause
_ensure_partition_release_lock(t) ==
    /\ At(t, "release_lock")
    /\ import_lock' = Released(import_lock)
    /\ stack' = SetTop(t, [Top(t) EXCEPT !.pc = "return"])
    /\ UNCHANGED <<meta, partition_manager, partitioned_targets, app_models, module,
                   declare_exc, calls, created, returned,
                   command>>

\* the frame of the caller once the call on top of it has ended: it receives the
\* value in `child`, or the exception, which sends it to its finally clause
Resume(caller, callee) ==
    IF callee.exc # NoExc
    THEN [caller EXCEPT !.exc = callee.exc, !.pc = "release_lock"]
    ELSE [caller EXCEPT !.child = callee.model]

\* the thread the management command runs on
CommandThread == CHOOSE t \in Threads : \A u \in Threads : t <= u

\* Command.handle once the get_partition call of its loop has ended: the loop
\* goes on, or the exception leaves handle
CommandResume(cmd, callee) ==
    IF callee.exc # NoExc
    THEN [cmd EXCEPT !.exc = callee.exc, !.pc = "raised"]
    ELSE [cmd EXCEPT !.pc = "for_partition_name", !.i = @ + 1]

\* get_partition returns (lines 79, 81, 140) or lets the exception through
get_partition_return(t) ==
    /\ At(t, "return")
    /\ LET f == Top(t)
           d == Depth(t)
           rest == SubSeq(stack[t], 1, d - 1)
       IN  /\ stack' = [stack EXCEPT ![t] =
                   IF d = 1 THEN <<>>
                   ELSE [rest EXCEPT ![d - 1] = Resume(rest[d - 1], f)]]
           /\ returned' =
                   IF f.exc = NoExc /\ f.model # None
                      /\ <<f.self, f.partition_key>> \notin DOMAIN returned
                   THEN Put(returned, <<f.self, f.partition_key>>, f.model)
                   ELSE returned
           /\ command' =
                   IF d = 1 /\ t = CommandThread /\ command.pc = "get_partition"
                   THEN CommandResume(command, f)
                   ELSE command
    /\ UNCHANGED <<meta, partition_manager, partitioned_targets, app_models, module,
                   import_lock, declare_exc, calls, created>>

\* ---------------------------------------------------------------- command steps
\* handle, lines 25-27: self.get_model()
Command_handle_get_model ==
    /\ command.pc = "handle"
    /\ LET r == Command_get_model(command.args, meta)
       IN  command' = IF r.exc # NoExc
                      THEN [command EXCEPT !.pc = "raised", !.exc = r.exc]
                      ELSE [command EXCEPT !.pc = "get_partition_names",
                                           !.model = r.model]
    /\ UNCHANGED <<meta, partition_manager, partitioned_targets, app_models, module,
                   import_lock, stack, declare_exc, calls, created, returned>>

\* model._partition_manager on a class that has none
NoManagerAttribute == <<"AttributeError", "has no attribute '_partition_manager'">>

\* handle, line 33: self.get_partition_names(model)
Command_handle_get_partition_names ==
    /\ command.pc = "get_partition_names"
    /\ LET r == Command_get_partition_names(command, command.model)
       IN  command' =
               IF ~HasManager(partition_manager, command.model)
               THEN [command EXCEPT !.pc = "raised", !.exc = NoManagerAttribute]
               ELSE IF r.exc # NoExc
               THEN [command EXCEPT !.pc = "raised", !.exc = r.exc]
               ELSE [command EXCEPT !.pc = "for_partition_name",
                                    !.partition_names = r.partition_names]
    /\ UNCHANGED <<meta, partition_manager, partitioned_targets, app_models, module,
                   import_lock, stack, declare_exc, calls, created, returned>>

\* handle, lines 33-34: the next partition name, or the end of the loop
Command_handle_for_partition_name ==
    /\ command.pc = "for_partition_name"
    /\ IF command.i > Len(command.partition_names)
       THEN /\ command' = [command EXCEPT !.pc = "syncdb"]
            /\ UNCHANGED stack
       ELSE /\ stack[CommandThread] = <<>>
            /\ stack' = [stack EXCEPT ![CommandThread] =
                    <<Frame(command.model, command.partition_names[command.i], TRUE)>>]
            /\ command' = [command EXCEPT
                    !.pc = "get_partition",
                    !.called = Append(@, command.partition_names[command.i])]
    /\ UNCHANGED <<meta, partition_manager, partitioned_targets, app_models, module,
                   import_lock, declare_exc, calls, created, returned>>

\* handle, lines 36-56: sqlall or syncdb over the models now registered
Command_handle_syncdb ==
    /\ command.pc = "syncdb"
    /\ command' = [command EXCEPT !.pc = "done"]
    /\ UNCHANGED <<meta, partition_manager, partitioned_targets, app_models, module,
                   import_lock, stack, declare_exc, calls, created, returned>>

\* ---------------------------------------------------------------- specification
Declare ==
    \/ \E model \in Templates : PartitionManager_contribute_to_class(model)
    \/ \E pfk \in Declarable :
          PartitionForeignKey_contribute_to_class(pfk.cls, pfk.name, pfk.to)
    \/ \E model_name \in ForeignNames : module_setattr_foreign(model_name)

Call ==
    \E t \in Threads, self \in Templates, k \in Keys, create \in BOOLEAN :
        get_partition(t, self, k, create)

Step(t) ==
    \/ get_partition_get_model(t)
    \/ _ensure_partition_acquire_lock(t)
    \/ _ensure_partition_create_model(t)
    \/ _ensure_partition_setattr(t)
    \/ _ensure_partition_for_pfk(t)
    \/ _ensure_partition_point(t)
    \/ _ensure_partition_remove(t)
    \/ _ensure_partition_release_lock(t)
    \/ get_partition_return(t)

Next == Declare \/ Call \/ \E t \in Threads : Step(t)

Spec == Init /\ [][Next]_vars

\* ---------------------------------------------------------------- cascades
\* the state of the classes and of the registry once the PartitionForeignKeys
\* `decls` have been declared, in that order
RECURSIVE DeclareAll(_, _, _)
DeclareAll(m, targets, decls) ==
    IF decls = <<>>
    THEN [meta |-> m, partitioned_targets |-> targets]
    ELSE LET fk == Head(decls)
         IN  DeclareAll(add_field(m, fk.cls, PlaceholderField(fk.name, fk.to)),
                        register_foreign_key(targets, fk),
                        Tail(decls))

\* three abstract models and the placeholders they declare: two dependents of
\* Tweet; a chain ChildPartitionModel -> Star -> Tweet; two placeholders of Star
\* and one of ChildPartitionModel, all to Tweet
Topologies ==
    {<<PFK(Star, "tweet", Tweet), PFK(ChildPartitionModel, "parent", Tweet)>>,
     <<PFK(Star, "tweet", Tweet), PFK(ChildPartitionModel, "parent", Star)>>,
     <<PFK(Star, "tweet", Tweet), PFK(Star, "author", Tweet),
       PFK(ChildPartitionModel, "parent", Tweet)>>}

\* every model has a partition manager, or ChildPartitionModel has none
ManagerSets == {{Tweet, Star, ChildPartitionModel}, {Tweet, Star}}

\* the models are declared, and foreign objects may be bound in the module
InitCascade ==
    /\ \E decls \in Topologies :
          LET declared == DeclareAll((Tweet :> NewMeta(TRUE, None))
                                     @@ (Star :> NewMeta(TRUE, None))
                                     @@ (ChildPartitionModel :> NewMeta(TRUE, None)),
                                     <<>>, decls)
          IN  /\ meta = declared.meta
              /\ partitioned_targets = declared.partitioned_targets
    /\ partition_manager \in ManagerSets
    /\ \E names \in SUBSET ForeignNames : module = [n \in names |-> Foreign]
    /\ app_models = <<>>
    /\ import_lock = [owner |-> NoThread, count |-> 0]
    /\ stack = [t \in Threads |-> <<>>]
    /\ declare_exc = NoExc
    /\ calls = 0
    /\ created = <<>>
    /\ returned = <<>>
    /\ command = NoCommand

NextCascade == Call \/ \E t \in Threads : Step(t)

SpecCascade == InitCascade /\ [][NextCascade]_vars

\* ---------------------------------------------------------------- cycles
\* two abstract models whose placeholders form a cycle Star -> Tweet -> Star, or
\* a placeholder of Star to Star itself
CyclicTopologies ==
    {<<PFK(Star, "tweet", Tweet), PFK(Tweet, "star", Star)>>,
     <<PFK(Star, "author", Star)>>}

\* the models are declared with their managers, and foreign objects may be bound
\* in the module
InitCycle ==
    /\ \E decls \in CyclicTopologies :
          LET declared == DeclareAll((Tweet :> NewMeta(TRUE, None))
                                     @@ (Star :> NewMeta(TRUE, None)),
                                     <<>>, decls)
          IN  /\ meta = declared.meta
              /\ partitioned_targets = declared.partitioned_targets
    /\ partition_manager = {Tweet, Star}
    /\ \E names \in SUBSET ForeignNames : module = [n \in names |-> Foreign]
    /\ app_models = <<>>
    /\ import_lock = [owner |-> NoThread, count |-> 0]
    /\ stack = [t \in Threads |-> <<>>]
    /\ declare_exc = NoExc
    /\ calls = 0
    /\ created = <<>>
    /\ returned = <<>>
    /\ command = NoCommand

SpecCycle == InitCycle /\ [][NextCascade]_vars

\* ---------------------------------------------------------------- scheduling
\* Star and Tweet with a placeholder to each other, so that a call nests a
\* second call of _ensure_partition; Tweet may have no partition manager, and
\* foreign objects may be bound in the module
InitLock ==
    /\ LET declared == DeclareAll((Tweet :> NewMeta(TRUE, None))
                                   @@ (Star :> NewMeta(TRUE, None)),
                                   <<>>,
                                   <<PFK(Star, "tweet", Tweet),
                                     PFK(Tweet, "star", Star)>>)
       IN  /\ meta = declared.meta
           /\ partitioned_targets = declared.partitioned_targets
    /\ partition_manager \in {{Tweet, Star}, {Star}}
    /\ \E names \in SUBSET ForeignNames : module = [n \in names |-> Foreign]
    /\ app_models = <<>>
    /\ import_lock = [owner |-> NoThread, count |-> 0]
    /\ stack = [t \in Threads |-> <<>>]
    /\ declare_exc = NoExc
    /\ calls = 0
    /\ created = <<>>
    /\ returned = <<>>
    /\ command = NoCommand

\* the threads are kept running by the interpreter: a thread that can take its
\* next step, which for a thread at imp.acquire_lock() means that the lock is
\* free or its own, eventually takes it
SpecLock ==
    InitLock /\ [][NextCascade]_vars /\ \A t \in Threads : WF_vars(Step(t))

\* ---------------------------------------------------------------- late declarations
\* testapp as imported: Tweet and Star with their managers, Star.tweet declared
TestappMeta ==
    add_field((Tweet :> NewMeta(TRUE, None)) @@ (Star :> NewMeta(TRUE, None)),
              Star, PlaceholderField("tweet", Tweet))

\* testapp is imported, a third model is being declared
InitLate ==
    /\ meta = TestappMeta @@ (ChildPartitionModel :> NewMeta(TRUE, None))
    /\ partitioned_targets = register_foreign_key(<<>>, PFK(Star, "tweet", Tweet))
    /\ partition_manager \in ManagerSets
    /\ app_models = <<>>
    /\ module = <<>>
    /\ import_lock = [owner |-> NoThread, count |-> 0]
    /\ stack = [t \in Threads |-> <<>>]
    /\ declare_exc = NoExc
    /\ calls = 0
    /\ created = <<>>
    /\ returned = <<>>
    /\ command = NoCommand

NextLate ==
    \/ \E pfk \in LateDeclarable :
          PartitionForeignKey_contribute_to_class_late(pfk.cls, pfk.name, pfk.to)
    \/ Call
    \/ \E t \in Threads : Step(t)

SpecLate == InitLate /\ [][NextLate]_vars

\* ---------------------------------------------------------------- command run
CommandArgs ==
    {<<>>} \cup {<<ref>> \o keys : ref \in ModelRefs, keys \in KeyLists}

\* one run of the command on testapp, whatever its arguments and options
InitCommand ==
    /\ meta = TestappMeta
    /\ partition_manager = {Tweet, Star}
    /\ partitioned_targets = register_foreign_key(<<>>, PFK(Star, "tweet", Tweet))
    /\ app_models = <<>>
    /\ module = <<>>
    /\ import_lock = [owner |-> NoThread, count |-> 0]
    /\ stack = [t \in Threads |-> <<>>]
    /\ declare_exc = NoExc
    /\ calls = 0
    /\ created = <<>>
    /\ returned = <<>>
    /\ \E args \in CommandArgs, current_only \in BOOLEAN, next_only \in BOOLEAN,
          current \in Keys, next \in Keys :
          command = NewCommand(args, current_only, next_only, current, next)

NextCommand ==
    \/ Command_handle_get_model
    \/ Command_handle_get_partition_names
    \/ Command_handle_for_partition_name
    \/ Command_handle_syncdb
    \/ \E t \in Threads : Step(t)

SpecCommand == InitCommand /\ [][NextCommand]_vars

\* ---------------------------------------------------------------- properties
NameOf(f) == _model_name_for_partition(f.self, f.partition_key)
KeyOf(f) == <<f.self, f.partition_key>>
Partitions == {c \in DOMAIN meta : Len(c) = 2}

\* C1: once get_partition(K) on T has returned a partition E, the look-up step of
\* every later get_partition(K) on T, with create true or false, ends the call
\* with E as its result and changes neither the classes, the registry, the
\* application cache, the module, the lock nor the count of created classes.
Idempotence ==
    [][\A t \in Threads :
          (/\ At(t, "get_model")
           /\ stack'[t] # stack[t]
           /\ KeyOf(Top(t)) \in DOMAIN returned)
          => /\ stack'[t] = SetTop(t, [Top(t) EXCEPT !.pc = "return",
                                         !.model = returned[KeyOf(Top(t))]])[t]
             /\ UNCHANGED <<meta, partition_manager, partitioned_targets,
                            app_models, module, import_lock, created>>]_vars

\* a call with create=False is about to return the partition an earlier call returned
IdempotenceWitness ==
    \E t \in Threads :
        /\ At(t, "return") /\ ~Top(t).create
        /\ KeyOf(Top(t)) \in DOMAIN returned
        /\ Top(t).model = returned[KeyOf(Top(t))]

\* C2: when a call of _ensure_partition on T for key K reaches its end without an
\* exception, every template S with a manager that declares a PartitionForeignKey
\* to T has a partition in the application cache under the name S_K, and the
\* field of that name on it is a ForeignKey to the partition the call made.
CascadeCorrectness ==
    \A t \in Threads : \A j \in 1..Depth(t) :
        LET f == stack[t][j]
        IN  (f.pc = "release_lock" /\ f.exc = NoExc) =>
            \A pfk \in Range(foreign_keys_referencing(partitioned_targets, f.self)) :
                HasManager(partition_manager, pfk.cls) =>
                LET child == get_model(app_models,
                        _model_name_for_partition(pfk.cls, f.partition_key))
                IN  /\ child # None
                    /\ get_field(meta, child, pfk.name)
                         = ForeignKeyField(pfk.name, f.model)

\* a cascade has ended: the call processed a pfk whose owner is another template
CascadeCorrectnessWitness ==
    \E t \in Threads :
        /\ At(t, "release_lock") /\ Top(t).exc = NoExc
        /\ \E pfk \in Top(t).pfks_to_remove : pfk.cls # Top(t).self

\* C3: every ForeignKey on a partition points at a partition with the same
\* partition key (stated for the runs in which no foreign object is bound in the
\* module, so that no call fails on a name collision).
NoCrossWiring ==
    (\A n \in DOMAIN module : module[n] # Foreign) =>
    \A c \in Partitions : \A i \in 1..Len(meta[c].local_fields) :
        LET field == meta[c].local_fields[i]
        IN  ~IsPFK(field) =>
            get_partition_key(meta, field.to, None) = get_partition_key(meta, c, None)

\* C4: whenever no synthesis is under way and the partitions of a pfk's target
\* and of its owner both exist for a key, the owner's partition has the field as
\* a ForeignKey to the target's partition.
LinkInvariant ==
    import_lock.count = 0 =>
    \A pfk \in RegisteredPFKs : \A k \in Keys :
        LET target == get_model(app_models, _model_name_for_partition(pfk.to, k))
            owner == get_model(app_models, _model_name_for_partition(pfk.cls, k))
        IN  (target # None /\ owner # None) =>
            get_field(meta, owner, pfk.name) = ForeignKeyField(pfk.name, target)

\* C5: where the module binds no foreign object to the name T_K, no
\* get_partition(K) on T raises the name-collision error once another
\* get_partition(K) on T has returned the partition.
NoCollisionBetweenCalls ==
    \A t \in Threads : \A j \in 1..Depth(t) :
        LET f == stack[t][j]
        IN  (f.exc = AlreadyExists(NameOf(f)) /\ Get(module, NameOf(f), None) # Foreign)
            => KeyOf(f) \notin DOMAIN returned

\* C6: under every name of the application cache at most one class is ever
\* built and registered, and an entry of the cache is never removed or replaced.
CreatedOnce ==
    /\ [](\A n \in DOMAIN created : created[n] <= 1)
    /\ [][\A n \in DOMAIN app_models :
            n \in DOMAIN app_models' /\ app_models'[n] = app_models[n]]_vars

\* a call that found no partition reaches create_model after another call has
\* built the class and bound it in the module
CreatedOnceWitness ==
    \E t \in Threads :
        /\ At(t, "setattr")
        /\ \E n \in DOMAIN module : module[n] = Top(t).model

\* C7: the look-up step of get_partition(K, create=False) that finds no partition
\* ends the call with None and no exception, and changes neither the classes, the
\* registry, the application cache, the module, the lock nor the count of
\* created classes.
NoCreateLookup ==
    [][\A t \in Threads :
          (/\ At(t, "get_model")
           /\ stack'[t] # stack[t]
           /\ ~Top(t).create
           /\ get_model(app_models, NameOf(Top(t))) = None)
          => /\ stack'[t] = SetTop(t, [Top(t) EXCEPT !.pc = "return"])[t]
             /\ Top(t).model = None /\ Top(t).exc = NoExc
             /\ UNCHANGED <<meta, partition_manager, partitioned_targets,
                            app_models, module, import_lock, created>>]_vars

\* a call with create=False is about to return None
NoCreateLookupWitness ==
    \E t \in Threads :
        /\ At(t, "return") /\ ~Top(t).create
        /\ Top(t).model = None /\ Top(t).exc = NoExc

\* C8: a get_partition(K) on T that ends while the module binds the name T_K to
\* a foreign object ends with the name-collision error (stated for a call that
\* runs while no other thread is in a call).
CollisionDetection ==
    \A t \in Threads : \A j \in 1..Depth(t) :
        LET f == stack[t][j]
        IN  (/\ f.pc = "return" /\ f.create
             /\ Get(module, NameOf(f), None) = Foreign
             /\ \A u \in Threads \ {t} : stack[u] = <<>>)
            => f.exc = AlreadyExists(NameOf(f))

\* C9: no model that is not abstract ever carries a partition manager, a
\* placeholder field or a registered placeholder, and the declaration that
\* raises for it changes nothing.
AbstractnessInvariant ==
    /\ [](\A c \in Templates : ~meta[c].abstract =>
            /\ c \notin partition_manager
            /\ meta[c].local_fields = <<>> /\ meta[c].fields = <<>>
            /\ \A pfk \in RegisteredPFKs : pfk.cls # c)
    /\ [][declare_exc' \in {ModelMustBeAbstract(BadModel), OwnerMustBeAbstract(BadModel)}
            => UNCHANGED <<meta, partition_manager, partitioned_targets,
                           app_models, module>>]_vars

\* a declaration on the model that is not abstract has raised
AbstractnessWitness ==
    declare_exc \in {ModelMustBeAbstract(BadModel), OwnerMustBeAbstract(BadModel)}

\* C10: all placeholders registered for one owner have the same target, and the
\* declaration that raises for a second target changes neither the registry nor
\* the fields of the owner.
SingleTarget ==
    /\ [](\A p \in RegisteredPFKs : \A q \in RegisteredPFKs :
            p.cls = q.cls => p.to = q.to)
    /\ [][(declare_exc = NoExc /\ declare_exc' = MultipleTargets(Star))
            => UNCHANGED <<meta, partitioned_targets>>]_vars

\* the declaration of a placeholder with a second target has raised
SingleTargetWitness == declare_exc = MultipleTargets(Star)

\* the command was given no model, a reference that names no model of testapp,
\* or both flags
UsageErrorInput(cmd) ==
    \/ cmd.current_only /\ cmd.next_only
    \/ Len(cmd.args) = 0
    \/ cmd.args[1] \notin {TestappModels \o <<c[1]>> : c \in Templates}

\* C15: a run of ensure_partition with both flags, with no model or with an
\* unknown model never reaches its loop, calls get_partition for no key, leaves
\* the application cache empty, and the exception it raises is a CommandError.
CommandUsageError ==
    (command.pc # "idle" /\ UsageErrorInput(command)) =>
        /\ command.pc \in {"handle", "get_partition_names", "raised"}
        /\ command.called = <<>>
        /\ app_models = <<>>
        /\ command.pc = "raised" => command.exc[1] = "CommandError"

\* the keys the command is to ensure, from its options and arguments
ExpectedKeys(cmd) ==
    IF cmd.current_only THEN <<cmd.current>>
    ELSE IF cmd.next_only THEN <<cmd.next>>
    ELSE IF Len(cmd.args) >= 2 THEN SubSeq(cmd.args, 2, Len(cmd.args))
    ELSE <<cmd.current, cmd.next>>

\* C16: when the loop of ensure_partition has ended, the keys get_partition was
\* called for are, in order, the explicit keys when keys are given without a
\* flag, the current key with current-only, the next key with next-only, and the
\* current key then the next key otherwise.
CommandKeySelection ==
    command.pc \in {"syncdb", "done"} =>
        /\ Range(command.called) = Range(ExpectedKeys(command))
        /\ (Len(command.args) < 2 /\ ~command.current_only /\ ~command.next_only)
              => command.called = <<command.current, command.next>>

\* C13: the class a create_model step builds, for a direct call or for a
\* dependent of a cascade, records the partition key of the call that builds it,
\* and the partition key of a class never changes afterwards.
PartitionKeyMarker ==
    /\ [][\A t \in Threads :
            (At(t, "create_model") /\ app_models' # app_models /\ stack'[t] # stack[t])
            => LET e == stack'[t][Depth(t)].model
               IN  /\ e \notin DOMAIN meta
                   /\ get_partition_key(meta', e, None) = <<Top(t).partition_key>>]_vars
    /\ [][\A c \in Partitions :
            get_partition_key(meta', c, None) = get_partition_key(meta, c, None)]_vars

\* a dependent built by a cascade carries the key of the call
PartitionKeyMarkerWitness ==
    \E t \in Threads :
        /\ Depth(t) >= 2 /\ At(t, "setattr")
        /\ NameIsFree(module, NameOf(Top(t)))
        /\ get_partition_key(meta, Top(t).model, None) = <<stack[t][1].partition_key>>

\* the statements of _ensure_partition between acquire_lock and release_lock
SectionPcs == {"create_model", "setattr", "for_pfk", "point", "remove", "release_lock"}
InSection(t) == \E j \in 1..Depth(t) : stack[t][j].pc \in SectionPcs

\* C17: no two threads are inside the exclusive section of _ensure_partition at
\* once, and the thread inside it holds the import lock.
MutualExclusion ==
    \A t \in Threads :
        InSection(t) =>
            /\ import_lock.count > 0 /\ import_lock.owner = t
            /\ \A u \in Threads \ {t} : ~InSection(u)

\* one thread is inside the section while another waits for the lock
MutualExclusionWitness ==
    \E t \in Threads : \E u \in Threads \ {t} :
        InSection(t) /\ At(u, "acquire_lock")

\* C20: a call that is in its loop over the placeholders has processed exactly
\* the first i-1 placeholders of the registry's list, in the order of their
\* registration, the call it is waiting for is the one on the owner of the i-th,
\* and its own class was registered in the application cache and bound in the
\* module before the loop began.
CascadeOrder ==
    \A t \in Threads : \A j \in 1..Depth(t) :
        LET f == stack[t][j]
            registered == Get(partitioned_targets, f.self, <<>>)
        IN  f.pc \in {"for_pfk", "point"} =>
            /\ f.i - 1 <= Len(registered)
            /\ f.pfks_to_remove = {registered[k] : k \in 1..(f.i - 1)}
            /\ get_model(app_models, NameOf(f)) = f.model
            /\ Get(module, NameOf(f), None) = f.model
            /\ (f.pc = "point" /\ j < Depth(t)) =>
                   /\ f.i <= Len(registered)
                   /\ stack[t][j + 1].self = registered[f.i].cls
                   /\ stack[t][j + 1].partition_key = f.partition_key

\* the second placeholder of the list is being processed
CascadeOrderWitness ==
    \E t \in Threads :
        /\ At(t, "point") /\ Top(t).i = 2
        /\ Top(t).pfks_to_remove # {}

\* the placeholders registered against the template of a call, and the partition
\* of a placeholder's owner for the key of the call
RegisteredFor(f) == Get(partitioned_targets, f.self, <<>>)
OwnerPartition(f, pfk) ==
    get_model(app_models, _model_name_for_partition(pfk.cls, f.partition_key))
NoPlaceholder(lst, name) == \A i \in 1..Len(lst) : ~(IsPFK(lst[i]) /\ lst[i].name = name)
Succeeded(f) == f.pc = "release_lock" /\ f.exc = NoExc

\* C11: when a call of _ensure_partition on T for key K ends without an
\* exception and an owner declares two or more placeholders to T, each of those
\* fields on the owner's partition for K is a ForeignKey to the partition the
\* call made, and no placeholder of that name is left in the partition's fields
\* or local fields.
SeveralPlaceholders ==
    \A t \in Threads : \A j \in 1..Depth(t) :
        LET f == stack[t][j]
        IN  Succeeded(f) =>
            \A p \in Range(RegisteredFor(f)) : \A q \in Range(RegisteredFor(f)) :
                (p.cls = q.cls /\ p.name # q.name) =>
                    /\ OwnerPartition(f, p) # None
                    /\ get_field(meta, OwnerPartition(f, p), p.name)
                         = ForeignKeyField(p.name, f.model)
                    /\ NoPlaceholder(meta[OwnerPartition(f, p)].fields, p.name)
                    /\ NoPlaceholder(meta[OwnerPartition(f, p)].local_fields, p.name)

\* C12: a cascade never goes past a placeholder whose owner has no partition
\* manager; the step that finds such an owner raises the missing-manager error
\* and changes nothing; and in a call that ends with that error the class of
\* the call stays registered and bound, and every owner's partition rewired
\* earlier in its loop stays registered with its ForeignKey.
MissingManager ==
    /\ [](\A t \in Threads : \A j \in 1..Depth(t) :
            LET f == stack[t][j]
                done == IF f.pc = "point" THEN f.i ELSE f.i - 1
            IN  /\ f.pc \in {"for_pfk", "point", "remove"} =>
                     \A k \in 1..done : RegisteredFor(f)[k].cls \in partition_manager
                /\ (f.exc # NoExc /\ f.exc[2] = "does not have a partition manager") =>
                     /\ f.model # None
                     /\ get_model(app_models, NameOf(f)) = f.model
                     /\ Get(module, NameOf(f), None) = f.model
                     /\ \A k \in 1..(f.i - 1) :
                           LET pfk == RegisteredFor(f)[k]
                           IN  /\ OwnerPartition(f, pfk) # None
                               /\ get_field(meta, OwnerPartition(f, pfk), pfk.name)
                                    = ForeignKeyField(pfk.name, f.model))
    /\ [][\A t \in Threads :
            (/\ At(t, "for_pfk") /\ stack'[t] # stack[t]
             /\ Top(t).i <= Len(RegisteredFor(Top(t)))
             /\ RegisteredFor(Top(t))[Top(t).i].cls \notin partition_manager)
            => /\ stack'[t] = SetTop(t, [Top(t) EXCEPT
                      !.pc = "release_lock",
                      !.exc = NoPartitionManager(RegisteredFor(Top(t))[Top(t).i].cls)])[t]
               /\ UNCHANGED <<meta, partition_manager, partitioned_targets,
                              app_models, module, created>>]_vars

\* a cascade has rewired one dependent and then failed on an owner without a manager
MissingManagerWitness ==
    \E t \in Threads :
        /\ At(t, "release_lock") /\ Top(t).i >= 2
        /\ Top(t).exc = NoPartitionManager(ChildPartitionModel)

\* C18: when a call of _ensure_partition on T for key K ends without an
\* exception and two or more templates have placeholders registered against T,
\* the partition for K of every one of them has no PartitionForeignKey in its
\* fields or local fields.
PlaceholderRemoval ==
    \A t \in Threads : \A j \in 1..Depth(t) :
        LET f == stack[t][j]
        IN  (Succeeded(f) /\ Cardinality({p.cls : p \in Range(RegisteredFor(f))}) >= 2) =>
            \A p \in Range(RegisteredFor(f)) :
                /\ OwnerPartition(f, p) # None
                /\ \A i \in 1..Len(meta[OwnerPartition(f, p)].fields) :
                      ~IsPFK(meta[OwnerPartition(f, p)].fields[i])
                /\ \A i \in 1..Len(meta[OwnerPartition(f, p)].local_fields) :
                      ~IsPFK(meta[OwnerPartition(f, p)].local_fields[i])

\* C19: when a call of _ensure_partition on A for key K ends without an
\* exception, B declares a placeholder to A and C one to B, and B and C have
\* managers, then the partitions of B and C for K are registered, B's field is a
\* ForeignKey to the partition the call made and C's a ForeignKey to B's partition.
TransitiveCascade ==
    \A t \in Threads : \A j \in 1..Depth(t) :
        LET f == stack[t][j]
        IN  Succeeded(f) =>
            \A p \in Range(RegisteredFor(f)) :
                \A q \in Range(Get(partitioned_targets, p.cls, <<>>)) :
                    (p.cls \in partition_manager /\ q.cls \in partition_manager) =>
                        /\ OwnerPartition(f, p) # None
                        /\ OwnerPartition(f, q) # None
                        /\ get_field(meta, OwnerPartition(f, p), p.name)
                             = ForeignKeyField(p.name, f.model)
                        /\ get_field(meta, OwnerPartition(f, q), q.name)
                             = ForeignKeyField(q.name, OwnerPartition(f, p))

\* a call is in its loop over the list foreign_keys_referencing gave it
Iterating(f) == f.pc = "point" \/ (f.pc = "for_pfk" /\ f.i > 1)

\* C14: no step changes the list of placeholders that a call in its loop over
\* foreign_keys_referencing(template) is iterating.
RegistrySnapshot ==
    [][\A t \in Threads : \A j \in 1..Depth(t) :
          Iterating(stack[t][j]) =>
              foreign_keys_referencing(partitioned_targets', stack[t][j].self)
                = foreign_keys_referencing(partitioned_targets, stack[t][j].self)]_vars

\* C21: every step leaves each list of the registry as a prefix of the list the
\* registry holds for the same target afterwards, a step that changes the
\* registry adds exactly one placeholder, at the end of the list of its target,
\* and a declaration that raises leaves the registry as it was.
RegistryAppendOnly ==
    [][/\ \A to \in DOMAIN partitioned_targets :
             /\ to \in DOMAIN partitioned_targets'
             /\ Len(partitioned_targets'[to]) >= Len(partitioned_targets[to])
             /\ SubSeq(partitioned_targets'[to], 1, Len(partitioned_targets[to]))
                  = partitioned_targets[to]
       /\ partitioned_targets' # partitioned_targets =>
             \E to \in DOMAIN partitioned_targets' :
                 /\ Len(partitioned_targets'[to])
                      = Len(Get(partitioned_targets, to, <<>>)) + 1
                 /\ partitioned_targets'[to][Len(partitioned_targets'[to])].to = to
                 /\ \A other \in DOMAIN partitioned_targets' \ {to} :
                       /\ other \in DOMAIN partitioned_targets
                       /\ partitioned_targets'[other] = partitioned_targets[other]
       /\ declare_exc' # declare_exc => partitioned_targets' = partitioned_targets]_vars

\* a cascade has rewired a partition and removed its placeholders while the
\* registry still holds the two placeholders registered for the target
RegistryAppendOnlyWitness ==
    \E t \in Threads :
        /\ At(t, "release_lock") /\ Top(t).exc = NoExc
        /\ Top(t).pfks_to_remove # {}
        /\ Len(Get(partitioned_targets, Top(t).self, <<>>)) >= 2
        /\ Top(t).pfks_to_remove = Range(partitioned_targets[Top(t).self])

\* C22: once a call of get_partition(K) on T has failed with the name-collision
\* error against a foreign object bound under T_K, the application cache holds
\* no class for T_K.
FailedCreationRegistersNothing ==
    \A t \in Threads : \A j \in 1..Depth(t) :
        LET f == stack[t][j]
        IN  (/\ f.exc = AlreadyExists(NameOf(f))
             /\ Get(module, NameOf(f), None) = Foreign)
            => get_model(app_models, NameOf(f)) = None

\* C23: a call of get_partition(K) that returns a partition returns one whose
\* partition key is K, and the partitions returned for two different keys of
\* one template are different classes.
DistinctKeys ==
    /\ \A t \in Threads : \A j \in 1..Depth(t) :
          LET f == stack[t][j]
          IN  (f.pc = "return" /\ f.exc = NoExc /\ f.model # None) =>
              get_partition_key(meta, f.model, None) = <<f.partition_key>>
    /\ \A a \in DOMAIN returned : \A b \in DOMAIN returned :
          (a[1] = b[1] /\ a[2] # b[2]) => returned[a] # returned[b]

\* C24: when a top-level get_partition(K) on A ends its synthesis without an
\* exception and B, which has a placeholder to A, is the target of a placeholder
\* of A (B may be A itself), then A's field is a ForeignKey to B's partition for
\* K, B's field is a ForeignKey to the partition the call made, each of the two
\* classes was built once, and the stack of nested calls is no deeper than the
\* number of templates.
CyclicCascade ==
    \A t \in Threads :
        /\ Depth(t) <= Cardinality(Templates) + 1
        /\ (Depth(t) = 1 /\ Succeeded(stack[t][1])) =>
              LET f == stack[t][1]
              IN  \A p \in Range(RegisteredFor(f)) :
                      \A q \in Range(Get(partitioned_targets, p.cls, <<>>)) :
                          q.cls = f.self =>
                              /\ OwnerPartition(f, p) # None
                              /\ get_field(meta, OwnerPartition(f, p), p.name)
                                   = ForeignKeyField(p.name, f.model)
                              /\ get_field(meta, f.model, q.name)
                                   = ForeignKeyField(q.name, OwnerPartition(f, p))
                              /\ Get(created, CacheName(NameOf(f)), 0) = 1
                              /\ Get(created, CacheName(
                                      _model_name_for_partition(p.cls, f.partition_key)),
                                      0) = 1

\* the number of calls of _ensure_partition that thread t has between
\* acquire_lock and release_lock
Held(t) == Cardinality({j \in 1..Depth(t) : stack[t][j].pc \in SectionPcs})

\* the import lock is held once for every call inside the section, by the thread
\* that makes these calls, and is free when there is none
LockBalanced ==
    /\ (import_lock.count = 0) <=> (import_lock.owner = NoThread)
    /\ \A t \in Threads :
          IF import_lock.owner = t THEN import_lock.count = Held(t) /\ Held(t) > 0
          ELSE Held(t) = 0

\* C25: the import lock is held exactly once per call of _ensure_partition that
\* is between its acquire and the end of its finally clause, whichever way the
\* call leaves (so it is free once a top-level call has returned or failed), and
\* a thread that waits for the lock gets it and its call returns.
LockRelease ==
    /\ []LockBalanced
    /\ \A t \in Threads : At(t, "acquire_lock") ~> At(t, "create_model")
    /\ \A t \in Threads : (stack[t] # <<>>) ~> (stack[t] = <<>>)

\* a top-level call has failed on an exception that a nested call raised and has
\* left its finally clause, the lock is free and another thread waits for it
LockReleaseWitness ==
    \E t \in Threads : \E u \in Threads \ {t} :
        /\ Depth(t) = 1 /\ Top(t).pc = "return"
        /\ Top(t).exc \in {AlreadyExists(n) : n \in DOMAIN module \ {NameOf(Top(t))}}
        /\ import_lock.count = 0
        /\ At(u, "acquire_lock")
====
